---- MODULE Spec2Model ----
(***************************************************************************)
(* onnx2casadi: OnnxToCasadi (load / convert / get_inputs / get_outputs),  *)
(* OnnxImporter.load_model and LayerConverter.convert_model.               *)
(*                                                                         *)
(* A symbolic expression is the term the engine builds through the         *)
(* symbolic library, written as a tagged tuple: the library is an opaque,  *)
(* total algebra here (it raises for no operand of expression type).       *)
(* Optional values (Python None) are sequences of length at most one.      *)
(***************************************************************************)
EXTENDS Integers, Sequences, FiniteSets, TLC

VARIABLES fs, proto, model_path, model, casadi_graph, loaded, load_failed, last

vars == <<fs, proto, model_path, model, casadi_graph, loaded, load_failed, last>>

(* ------------------------------ bounds -------------------------------- *)
MaxRank == 2
MaxDim == 2
MaxAttrs == 2
MaxAttrVal == 2
MaxOutputs == 2

(* --------------------------- Python values ---------------------------- *)
None == <<>>
Some(v) == <<v>>

Ok(v) == <<"ok", v>>
Raise(type, msg) == <<"raise", type, msg>>
IsOk(r) == r[1] = "ok"

SequencingError == Raise("RuntimeError", "Model must be loaded")
SourceNotFound == Raise("FileNotFoundError", "Model file not found")
SourceInvalid == Raise("ValueError", "Failed to load ONNX model")
UnsupportedOperator == Raise("NotImplementedError", "is not yet supported")
NotYetImplemented == Raise("NotImplementedError", "not yet implemented")
NoOutputsFound == Raise("RuntimeError", "No outputs found in the model")
IndexError == Raise("IndexError", "list index out of range")
OperandError == Raise("TypeError", "unsupported operand")

(* ------------------------ symbolic expressions ------------------------ *)
Num(v) == <<"num", v>>
Bytes(v) == <<"bytes", v>>
MXsym(name, rows, cols) == <<"sym", name, rows, cols>>
MXconst(array) == <<"const", array>>
Bin(f, a, b) == <<f, a, b>>
Un(f, a) == <<f, a>>
mtimes(a, b) == Bin("mtimes", a, b)
vertcat(args) == <<"vertcat", args>>

IsNumber(v) == v[1] = "num"

(* ------------------------- sequence helpers --------------------------- *)
RECURSIVE Prod(_)
Prod(s) == IF s = <<>> THEN 1 ELSE Head(s) * Prod(Tail(s))

RECURSIVE SeqsUpTo(_, _)
SeqsUpTo(S, n) ==
  IF n = 0 THEN {<<>>}
  ELSE LET shorter == SeqsUpTo(S, n - 1)
       IN shorter \cup {Append(s, x) : s \in shorter, x \in S}

Range(s) == {s[i] : i \in DOMAIN s}

(* ----------------------------- the engine ----------------------------- *)
supported_ops ==
  {"Add", "Sub", "Mul", "Div", "MatMul", "Gemm",
   "Relu", "Sigmoid", "Tanh", "Identity",
   "Constant", "Reshape", "Transpose", "Concat"}

NoneDim == -1

\* _get_tensor_shape: the dimensions, NoneDim where no dim_value is set;
\* the empty list without a tensor type or without a shape field.
RECURSIVE ShapeDims(_)
ShapeDims(dim) ==
  IF dim = <<>> THEN <<>>
  ELSE <<IF Head(dim).has_dim_value THEN Head(dim).dim_value ELSE NoneDim>>
       \o ShapeDims(Tail(dim))

GetTensorShape(tensor_info) ==
  IF tensor_info.type.has_tensor_type /\ tensor_info.type.has_shape
  THEN ShapeDims(tensor_info.type.dim)
  ELSE <<>>

IsInt(d) == d # NoneDim

\* lines 44-51 with the scalar fallback taken for any dimension without a value.
InputPlaceholderMutant(input_tensor) ==
  LET shape == GetTensorShape(input_tensor)
  IN IF shape # <<>> /\ SelectSeq(shape, IsInt) = shape
     THEN MXsym(input_tensor.name, Prod(shape), 1)
     ELSE MXsym(input_tensor.name, 1, 1)

\* convert_model, lines 44-51: the placeholder of one declared input.
InputPlaceholder(input_tensor) ==
  LET shape == GetTensorShape(input_tensor)
  IN IF shape # <<>>
     THEN MXsym(input_tensor.name, Prod(SelectSeq(shape, IsInt)), 1)
     ELSE MXsym(input_tensor.name, 1, 1)

\* _convert_initializer: the constant matrix of the initializer's array.
ConvertInitializer(initializer) == MXconst(initializer.array)

\* _get_attribute: the first attribute of that name with f, i or s set.
RECURSIVE GetAttribute(_, _, _)
GetAttribute(attribute, name, default) ==
  IF attribute = <<>> THEN default
  ELSE LET attr == Head(attribute)
       IN IF attr.name = name /\ attr.field = "f" THEN Num(attr.val)
          ELSE IF attr.name = name /\ attr.field = "i" THEN Num(attr.val)
          ELSE IF attr.name = name /\ attr.field = "s" THEN Bytes(attr.val)
          ELSE GetAttribute(Tail(attribute), name, default)

DefaultAlpha == Num(1)
DefaultBeta == Num(1)

MissingCMutant == Num(1)

MissingC == Num(0)

\* line 101 giving up at the first input name that is not in values.
RECURSIVE ResolveInputsMutant(_, _)
ResolveInputsMutant(names, values) ==
  IF names = <<>> \/ Head(names) \notin DOMAIN values THEN <<>>
  ELSE <<values[Head(names)]>> \o ResolveInputsMutant(Tail(names), values)

\* line 101: the expressions of the input names present in values, in order.
RECURSIVE ResolveInputs(_, _)
ResolveInputs(names, values) ==
  IF names = <<>> THEN <<>>
  ELSE (IF Head(names) \in DOMAIN values THEN <<values[Head(names)]>> ELSE <<>>)
       \o ResolveInputs(Tail(names), values)

BinaryOf(op_type) ==
  CASE op_type = "Add" -> "add"
    [] op_type = "Sub" -> "sub"
    [] op_type = "Mul" -> "mul"
    [] op_type = "Div" -> "div"
    [] op_type = "MatMul" -> "mtimes"

\* Gemm, lines 116-120. A Python number times a Python number is a number;
\* a byte string is no operand of the symbolic library.
GemmTerm(A, B, C, alpha, beta) ==
  IF ~IsNumber(alpha) \/ ~IsNumber(beta) THEN OperandError
  ELSE Ok(Bin("add", Bin("mul", alpha, mtimes(A, B)), Bin("mul", beta, C)))

ConvertGemm(node, inputs) ==
  IF Len(inputs) < 2 THEN IndexError
  ELSE LET A == inputs[1]
           B == inputs[2]
           C == IF Len(inputs) > 2 THEN inputs[3] ELSE MissingC
           alpha == GetAttribute(node.attribute, "alpha", DefaultAlpha)
           beta == GetAttribute(node.attribute, "beta", DefaultBeta)
       IN GemmTerm(A, B, C, alpha, beta)

ImplementedBranch(node, inputs) ==
  LET op_type == node.op_type
  IN IF op_type \in {"Add", "Sub", "Mul", "Div", "MatMul"}
     THEN IF Len(inputs) < 2 THEN IndexError
          ELSE Ok(Bin(BinaryOf(op_type), inputs[1], inputs[2]))
     ELSE IF op_type = "Gemm" THEN ConvertGemm(node, inputs)
     ELSE IF Len(inputs) < 1 THEN IndexError
     ELSE IF op_type = "Relu" THEN Ok(Bin("fmax", inputs[1], Num(0)))
     ELSE IF op_type = "Sigmoid"
          THEN Ok(Bin("div", Num(1), Bin("add", Num(1), Un("exp", Un("neg", inputs[1])))))
     ELSE IF op_type = "Tanh" THEN Ok(Un("tanh", inputs[1]))
     ELSE Ok(inputs[1])

implemented_ops ==
  {"Add", "Sub", "Mul", "Div", "MatMul", "Gemm", "Relu", "Sigmoid", "Tanh", "Identity"}

UnsupportedCheckMutant(op_type) == FALSE

UnsupportedCheck(op_type) == op_type \notin supported_ops

NotImplementedBranchMutant(op_type) == UnsupportedOperator

NotImplementedBranch(op_type) == NotYetImplemented

\* _convert_node
ConvertNode(node, values) ==
  IF UnsupportedCheck(node.op_type) THEN UnsupportedOperator
  ELSE LET inputs == ResolveInputs(node.input, values)
       IN IF node.op_type \in implemented_ops
          THEN ImplementedBranch(node, inputs)
          ELSE NotImplementedBranch(node.op_type)

(* --------------------------- convert_model ---------------------------- *)
\* One insertion into the value environment: values[name] = val.
Event(name, val, by, values) ==
  [name |-> name, val |-> val, by |-> by, overwrote |-> name \in DOMAIN values]

\* values.setdefault(name, val): an existing binding is kept.
InsertMutant(st, name, val, by) ==
  IF name \in DOMAIN st.values THEN st
  ELSE [values |-> (name :> val) @@ st.values,
        log |-> Append(st.log, Event(name, val, by, st.values))]

Insert(st, name, val, by) ==
  [values |-> (name :> val) @@ st.values,
   log |-> Append(st.log, Event(name, val, by, st.values))]

EmptyEnv == [values |-> <<>>, log |-> <<>>]

\* lines 43-51
RECURSIVE BindInputs(_, _, _)
BindInputs(input, i, st) ==
  IF i > Len(input) THEN st
  ELSE BindInputs(input, i + 1,
         Insert(st, input[i].name, InputPlaceholder(input[i]), <<"input", i>>))

\* lines 54-55
RECURSIVE BindInitializers(_, _, _)
BindInitializers(initializer, i, st) ==
  IF i > Len(initializer) THEN st
  ELSE BindInitializers(initializer, i + 1,
         Insert(st, initializer[i].name, ConvertInitializer(initializer[i]),
                <<"initializer", i>>))

\* lines 61-65: no lowering rule returns a list, so every declared output of
\* the node is bound to the one result.
RECURSIVE BindNodeOutputs(_, _, _, _, _)
BindNodeOutputs(output, i, result, k, st) ==
  IF i > Len(output) THEN st
  ELSE BindNodeOutputs(output, i + 1, result, k,
         Insert(st, output[i], result, <<"node", k>>))

\* lines 58-65: the walk stops at the first node whose lowering raises.
RECURSIVE WalkNodes(_, _, _)
WalkNodes(node, k, st) ==
  IF k > Len(node) THEN [st |-> st, failedAt |-> 0, error |-> None]
  ELSE LET r == ConvertNode(node[k], st.values)
       IN IF IsOk(r)
          THEN WalkNodes(node, k + 1, BindNodeOutputs(node[k].output, 1, r[2], k, st))
          ELSE [st |-> st, failedAt |-> k, error |-> Some(r)]

\* lines 68-71 with the collected expressions in reverse order.
RECURSIVE CollectOutputsMutant(_, _)
CollectOutputsMutant(output, values) ==
  IF output = <<>> THEN <<>>
  ELSE CollectOutputsMutant(Tail(output), values)
       \o (IF Head(output).name \in DOMAIN values
           THEN <<values[Head(output).name]>> ELSE <<>>)

\* lines 68-71: the expressions of the declared outputs that are bound.
RECURSIVE CollectOutputs(_, _)
CollectOutputs(output, values) ==
  IF output = <<>> THEN <<>>
  ELSE (IF Head(output).name \in DOMAIN values
        THEN <<values[Head(output).name]>> ELSE <<>>)
       \o CollectOutputs(Tail(output), values)

\* lines 74-79 without the single-output case.
ReturnOutputsMutant(outputs) ==
  IF Len(outputs) > 0 THEN Ok(vertcat(outputs)) ELSE NoOutputsFound

\* lines 74-79
ReturnOutputs(outputs) ==
  IF Len(outputs) = 1 THEN Ok(outputs[1])
  ELSE IF Len(outputs) > 1 THEN Ok(vertcat(outputs))
  ELSE NoOutputsFound

\* convert_model: the outcome, with the environment and the insertions made.
ConvertModel(graph) ==
  LET seeded == BindInitializers(graph.initializer, 1,
                  BindInputs(graph.input, 1, EmptyEnv))
      walk == WalkNodes(graph.node, 1, seeded)
      outputs == CollectOutputs(graph.output, walk.st.values)
  IN [outcome |-> IF walk.failedAt = 0 THEN ReturnOutputs(outputs) ELSE walk.error[1],
      values |-> walk.st.values,
      log |-> walk.st.log,
      seeded |-> Len(seeded.log),
      failedAt |-> walk.failedAt,
      outputs |-> IF walk.failedAt = 0 THEN outputs ELSE <<>>]

NoRun ==
  [outcome |-> Ok(None), values |-> <<>>, log |-> <<>>, seeded |-> 0,
   failedAt |-> 0, outputs |-> <<>>]

(* ---------------------------- OnnxImporter ---------------------------- *)
\* What a path holds: nothing, bytes that do not parse, or a serialized graph.
Missing == <<"missing">>
Garbage == <<"garbage">>
Serialized(graph) == <<"onnx", graph>>
\* The file that holds the graph the caller also has in memory.
OwnFile == <<"own">>
FileAt(content, own) == IF content = OwnFile THEN Serialized(own) ELSE content

PathExists(content) == content # Missing

\* onnx.checker.check_model, line 42, by the rules of the ONNX checker that
\* bear on these graphs: typed and shaped value infos, unique input and
\* initializer names, node inputs in scope, single assignment of node
\* outputs, and each operator's input count and attribute types.
InputCounts(op_type) ==
  CASE op_type \in {"Add", "Sub", "Mul", "Div", "MatMul", "Reshape"} -> {2}
    [] op_type \in {"Gemm", "Conv"} -> {2, 3}
    [] op_type \in {"Relu", "Sigmoid", "Tanh", "Identity", "Transpose", "Softmax"} -> {1}
    [] op_type = "Constant" -> {0}
    [] op_type = "Concat" -> {1, 2, 3}
Distinct(names) ==
  \A i, j \in DOMAIN names : i # j => names[i] # names[j]
ValueInfoOk(value_info) ==
  value_info.type.has_tensor_type /\ value_info.type.has_shape
AttributesOk(node) ==
  /\ Distinct([i \in DOMAIN node.attribute |-> node.attribute[i].name])
  /\ \A i \in DOMAIN node.attribute :
       node.attribute[i].name \in {"alpha", "beta"} => node.attribute[i].field = "f"
  /\ node.op_type = "Concat" =>
       \E i \in DOMAIN node.attribute : node.attribute[i].name = "axis"
RECURSIVE NodesOk(_, _, _)
NodesOk(node, k, scope) ==
  \/ k > Len(node)
  \/ /\ Len(node[k].input) \in InputCounts(node[k].op_type)
     /\ Len(node[k].output) = 1
     /\ Range(node[k].input) \subseteq scope
     /\ Range(node[k].output) \cap scope = {}
     /\ AttributesOk(node[k])
     /\ NodesOk(node, k + 1, scope \cup Range(node[k].output))
CheckModel(graph) ==
  /\ \A i \in DOMAIN graph.input : ValueInfoOk(graph.input[i])
  /\ \A i \in DOMAIN graph.output : ValueInfoOk(graph.output[i])
  /\ Distinct([i \in DOMAIN graph.input |-> graph.input[i].name])
  /\ Distinct([i \in DOMAIN graph.initializer |-> graph.initializer[i].name])
  /\ NodesOk(graph.node, 1,
             {graph.input[i].name : i \in DOMAIN graph.input}
             \cup {graph.initializer[i].name : i \in DOMAIN graph.initializer})

\* load_model without the os.path.exists test: the parser meets the missing
\* file and its error is wrapped like any other.
LoadModelMutant(content) ==
  IF content[1] = "onnx" /\ CheckModel(content[2])
  THEN [outcome |-> Ok(content[2]), parsed |-> TRUE]
  ELSE [outcome |-> SourceInvalid, parsed |-> TRUE]

\* load_model: [outcome, parsed]; parsed tells whether onnx.load ran.
LoadModel(content) ==
  IF ~PathExists(content)
  THEN [outcome |-> SourceNotFound, parsed |-> FALSE]
  ELSE IF content[1] = "onnx" /\ CheckModel(content[2])
       THEN [outcome |-> Ok(content[2]), parsed |-> TRUE]
       ELSE [outcome |-> SourceInvalid, parsed |-> TRUE]

\* _parse_value_info; element type names and dim_param names are left out.
ParseValueInfo(value_info) ==
  [name |-> value_info.name,
   shape |-> IF value_info.type.has_tensor_type /\ value_info.type.has_shape
             THEN Some(ShapeDims(value_info.type.dim)) ELSE None]

\* get_inputs / get_outputs: a dict, so the last declaration of a name wins.
RECURSIVE ValueInfos(_, _)
ValueInfos(decls, acc) ==
  IF decls = <<>> THEN acc
  ELSE ValueInfos(Tail(decls), (Head(decls).name :> ParseValueInfo(Head(decls))) @@ acc)

(* ----------------------------- OnnxToCasadi --------------------------- *)
Paths == {"a.onnx", "b.onnx"}

Call(name, outcome, parsed, engine, queried, run) ==
  [call |-> name, path |-> model_path, outcome |-> outcome, parsed |-> parsed,
   engine |-> engine, queried |-> queried, run |-> run]

\* load that stores whatever the importer produced: a failed load clears
\* self.model.
LoadMutant ==
  LET r == LoadModel(FileAt(fs[model_path], proto))
  IN /\ model' = IF IsOk(r.outcome) THEN Some(r.outcome[2]) ELSE None
     /\ loaded' = (loaded \/ IsOk(r.outcome))
     /\ load_failed' = (load_failed \/ ~IsOk(r.outcome))
     /\ last' = Call("load", IF IsOk(r.outcome) THEN Ok(None) ELSE r.outcome,
                     r.parsed, FALSE, FALSE, NoRun)
     /\ UNCHANGED <<fs, proto, model_path, casadi_graph>>

\* load: the importer's outcome; self.model is assigned only on success.
Load ==
  LET r == LoadModel(FileAt(fs[model_path], proto))
  IN /\ model' = IF IsOk(r.outcome) THEN Some(r.outcome[2]) ELSE model
     /\ loaded' = (loaded \/ IsOk(r.outcome))
     /\ load_failed' = (load_failed \/ ~IsOk(r.outcome))
     /\ last' = Call("load", IF IsOk(r.outcome) THEN Ok(None) ELSE r.outcome,
                     r.parsed, FALSE, FALSE, NoRun)
     /\ UNCHANGED <<fs, proto, model_path, casadi_graph>>

\* convert without the None test: the engine is handed None and raises.
ConvertCallMutant(m) ==
  IF m = None
  THEN [outcome |-> Raise("AttributeError", "NoneType has no attribute graph"),
        engine |-> TRUE, run |-> NoRun]
  ELSE LET run == ConvertModel(m[1])
       IN [outcome |-> run.outcome, engine |-> TRUE, run |-> run]

\* convert, lines 72-76: [outcome, engine, run]
ConvertCall(m) ==
  IF m = None
  THEN [outcome |-> SequencingError, engine |-> FALSE, run |-> NoRun]
  ELSE LET run == ConvertModel(m[1])
       IN [outcome |-> run.outcome, engine |-> TRUE, run |-> run]

Convert ==
  LET c == ConvertCall(model)
  IN /\ casadi_graph' = IF IsOk(c.outcome) THEN Some(c.outcome[2]) ELSE casadi_graph
     /\ last' = Call("convert", c.outcome, FALSE, c.engine, FALSE, c.run)
     /\ UNCHANGED <<fs, proto, model_path, model, loaded, load_failed>>

\* LayerConverter.convert_model called on a ModelProto the caller holds.
ConvertModelDirect ==
  LET run == ConvertModel(proto)
  IN /\ last' = Call("convert_model", run.outcome, FALSE, TRUE, FALSE, run)
     /\ UNCHANGED <<fs, proto, model_path, model, casadi_graph, loaded, load_failed>>

\* get_inputs / get_outputs, lines 88-91 and 103-106: [outcome, queried]
QueryCall(m, field) ==
  IF m = None
  THEN [outcome |-> SequencingError, queried |-> FALSE]
  ELSE [outcome |-> Ok(ValueInfos(IF field = "input" THEN m[1].input ELSE m[1].output,
                                  <<>>)),
        queried |-> TRUE]

GetInputs ==
  LET q == QueryCall(model, "input")
  IN /\ last' = Call("get_inputs", q.outcome, FALSE, FALSE, q.queried, NoRun)
     /\ UNCHANGED <<fs, proto, model_path, model, casadi_graph, loaded, load_failed>>

GetOutputs ==
  LET q == QueryCall(model, "output")
  IN /\ last' = Call("get_outputs", q.outcome, FALSE, FALSE, q.queried, NoRun)
     /\ UNCHANGED <<fs, proto, model_path, model, casadi_graph, loaded, load_failed>>

\* model_path is a public attribute: the caller may point it elsewhere.
SetModelPath ==
  /\ \E p \in Paths \ {model_path} : model_path' = p
  /\ UNCHANGED <<fs, proto, model, casadi_graph, loaded, load_failed, last>>

(* ------------------------- the graphs explored ------------------------ *)
NoType == [has_tensor_type |-> FALSE, has_shape |-> FALSE, dim |-> <<>>]
NoShape == [has_tensor_type |-> TRUE, has_shape |-> FALSE, dim |-> <<>>]
Shaped(dim) == [has_tensor_type |-> TRUE, has_shape |-> TRUE, dim |-> dim]
Fixed(v) == [has_dim_value |-> TRUE, dim_value |-> v]
Symbolic == [has_dim_value |-> FALSE, dim_value |-> 0]

Decl(name, type) == [name |-> name, type |-> type]
Tensor(name, array) == [name |-> name, array |-> array]
Attr(name, field, val) == [name |-> name, field |-> field, val |-> val]
Node(op_type, input, output, attribute) ==
  [op_type |-> op_type, input |-> input, output |-> output, attribute |-> attribute]
Graph(input, initializer, node, output) ==
  [input |-> input, initializer |-> initializer, node |-> node, output |-> output]

Scalar == Shaped(<<>>)
Outs(names) == [i \in DOMAIN names |-> Decl(names[i], Scalar)]

unsupported_ops == {"Softmax", "Conv"}
OpTypes == supported_ops \cup unsupported_ops

X == Decl("x", Scalar)
W == Decl("w", Scalar)

\* Operator dispatch: one or two nodes of any kind; "q" is declared nowhere.
FirstInputs ==
  {<<"x", "w">>, <<"w", "x">>, <<"x">>, <<"q">>, <<"q", "x">>,
   <<"x", "q", "w">>, <<"x", "w", "q">>}
OneNodeGraphs ==
  {Graph(<<X, W>>, <<>>, <<Node(op, in, <<"h">>, <<>>)>>, Outs(<<"h">>)) :
     op \in OpTypes, in \in FirstInputs}
TwoNodeGraphs ==
  {Graph(<<X, W>>, <<>>,
         <<Node(op1, in1, <<"h">>, <<>>), Node(op2, in2, <<"y">>, <<>>)>>,
         Outs(<<"y">>)) :
     op1 \in OpTypes, in1 \in {<<"x", "w">>, <<"q", "x">>},
     op2 \in OpTypes, in2 \in {<<"h", "x">>, <<"h">>}}

\* Declared names: inputs, initializers, node outputs and declared outputs
\* that repeat, collide or stay unbound.
NodeLists ==
  {<<Node("Relu", <<"x">>, <<"h">>, <<>>)>>,
   <<Node("Relu", <<"x">>, <<"h">>, <<>>), Node("Add", <<"h", "w">>, <<"y">>, <<>>)>>,
   <<Node("Tanh", <<"x">>, <<"x">>, <<>>)>>,
   <<Node("Relu", <<"x">>, <<"h", "y">>, <<>>)>>}
NameGraphs ==
  {Graph(in, init, nodes, Outs(out)) :
     in \in SeqsUpTo({X}, 2) \cup {<<X, W>>},
     init \in SeqsUpTo({Tensor("w", 1), Tensor("h", 0)}, 1),
     nodes \in NodeLists,
     out \in SeqsUpTo({"x", "h", "y", "q"}, MaxOutputs)}

\* Declared input shapes.
Dims == {Fixed(v) : v \in 1..MaxDim} \cup {Symbolic}
TensorTypes == {NoType, NoShape} \cup {Shaped(d) : d \in SeqsUpTo(Dims, MaxRank)}
ShapeGraphs ==
  {Graph(in, <<>>, <<Node("Identity", <<"x">>, <<"y">>, <<>>)>>, Outs(<<"y">>)) :
     in \in UNION {{<<Decl("x", t)>>, <<Decl("x", t), Decl("w", Shaped(<<Fixed(2)>>))>>,
                    <<Decl("w", Shaped(<<Symbolic, Fixed(2)>>)), Decl("x", t)>>} :
                   t \in TensorTypes}}

\* Gemm: attribute lists and a third input that is given, zero or absent.
Attrs ==
  {Attr(n, "f", v) : n \in {"alpha", "beta"}, v \in 0..MaxAttrVal}
  \cup {Attr("alpha", k, MaxAttrVal) : k \in {"i", "s", "none"}}
  \cup {Attr("beta", "i", MaxAttrVal)}
GemmGraphs ==
  {Graph(<<X, W>>, <<Tensor("z", 0), Tensor("c", 1)>>,
         <<Node("Gemm", in, <<"y">>, attrs)>>, Outs(<<"y">>)) :
     in \in {<<"x", "w">>, <<"x", "w", "z">>, <<"x", "w", "c">>, <<"x", "q", "w">>},
     attrs \in SeqsUpTo(Attrs, MaxAttrs)}

Graphs == OneNodeGraphs \cup TwoNodeGraphs \cup NameGraphs \cup ShapeGraphs \cup GemmGraphs

\* Files of the small catalogue: both paths vary over it.
GoodGraph ==
  Graph(<<X>>, <<>>, <<Node("Relu", <<"x">>, <<"y">>, <<>>)>>, Outs(<<"y">>))
BadGraph ==
  Graph(<<X>>, <<>>, <<Node("Transpose", <<"x">>, <<"y">>, <<>>)>>, Outs(<<"y">>))
Catalogue == {Missing, Garbage, Serialized(GoodGraph), Serialized(BadGraph)}

(* --------------------------- specification ---------------------------- *)
NoCall ==
  [call |-> "none", path |-> "a.onnx", outcome |-> Ok(None), parsed |-> FALSE,
   engine |-> FALSE, queried |-> FALSE, run |-> NoRun]

\* __init__, in a world where either both paths hold files of the catalogue
\* or a.onnx holds the serialized graph the caller also has in memory.
Init ==
  /\ \/ fs \in [Paths -> Catalogue] /\ proto = GoodGraph
     \/ \E g \in Graphs :
          /\ proto = g
          /\ fs = [p \in Paths |-> IF p = "a.onnx" THEN OwnFile ELSE Missing]
  /\ model_path \in Paths
  /\ model = None
  /\ casadi_graph = None
  /\ loaded = FALSE
  /\ load_failed = FALSE
  /\ last = NoCall

Next == Load \/ Convert \/ ConvertModelDirect \/ GetInputs \/ GetOutputs \/ SetModelPath

Spec == Init /\ [][Next]_vars

(* ------------------------------ claims -------------------------------- *)
Converted == last.engine
TheGraph == IF last.call = "convert" THEN model[1] ELSE proto
FileOf(path) == FileAt(fs[path], proto)
RunLog == last.run.log

\* C1: while no load() has succeeded, convert(), get_inputs() and
\* get_outputs() each fail with the sequencing error without reaching the
\* importer's queries or the engine, and model and casadi_graph stay None.
C1_SequencingError ==
  ~loaded =>
    /\ model = <<>>
    /\ casadi_graph = <<>>
    /\ last.call \in {"convert", "get_inputs", "get_outputs"} =>
         /\ last.outcome = <<"raise", "RuntimeError", "Model must be loaded">>
         /\ ~last.engine
         /\ ~last.queried
         /\ last.run.log = <<>>

C1_Witness ==
  /\ ~loaded
  /\ load_failed
  /\ last.call = "get_inputs"
  /\ last.outcome = <<"raise", "RuntimeError", "Model must be loaded">>

\* C6: load() on a path that does not exist fails with FileNotFoundError
\* without invoking the parser or the engine; on a path that exists but does
\* not parse or validate it fails with ValueError.
C6_LoadErrors ==
  last.call = "load" =>
    /\ FileOf(last.path) = <<"missing">> =>
         /\ last.outcome = <<"raise", "FileNotFoundError", "Model file not found">>
         /\ ~last.parsed
         /\ ~last.engine
    /\ (FileOf(last.path) # <<"missing">> /\ last.outcome[1] = "raise") =>
         /\ last.outcome = <<"raise", "ValueError", "Failed to load ONNX model">>
         /\ last.parsed
         /\ ~last.engine
    /\ (FileOf(last.path) = <<"garbage">>
        \/ (FileOf(last.path)[1] = "onnx" /\ ~CheckModel(FileOf(last.path)[2]))) =>
         last.outcome[1] = "raise"

C6_Witness ==
  /\ last.call = "load"
  /\ FileOf(last.path) = <<"missing">>
  /\ last.outcome = <<"raise", "FileNotFoundError", "Model file not found">>
  /\ ~last.parsed

(* Helpers of the claims about one convert run. *)
ClaimedSupported ==
  {"Add", "Sub", "Mul", "Div", "MatMul", "Gemm", "Relu", "Sigmoid", "Tanh",
   "Identity", "Constant", "Reshape", "Transpose", "Concat"}
ClaimedUnimplemented == {"Constant", "Reshape", "Transpose", "Concat"}
ClaimedImplemented == ClaimedSupported \ ClaimedUnimplemented

HasUnsupported(g) == \E k \in DOMAIN g.node : g.node[k].op_type \notin ClaimedSupported
FirstUnsupported(g) ==
  CHOOSE k \in DOMAIN g.node :
    /\ g.node[k].op_type \notin ClaimedSupported
    /\ \A j \in 1..(k - 1) : g.node[j].op_type \in ClaimedSupported

\* Node k was handed to _convert_node in the last run.
Visited(k) ==
  /\ k \in DOMAIN TheGraph.node
  /\ last.run.failedAt = 0 \/ k <= last.run.failedAt
BoundBy(k) == {i \in DOMAIN RunLog : RunLog[i].by = <<"node", k>>}

\* The environment the insertions before node k's visit leave behind.
RECURSIVE EnvOf(_, _)
EnvOf(events, acc) ==
  IF events = <<>> THEN acc
  ELSE EnvOf(Tail(events), (Head(events).name :> Head(events).val) @@ acc)
BeforeNode(e, k) == e.by[1] # "node" \/ e.by[2] < k
EnvBefore(k) == EnvOf(SelectSeq(RunLog, LAMBDA e : BeforeNode(e, k)), <<>>)

\* C2 as stated: whenever the graph holds an unsupported node, convert fails
\* with the unsupported-operator condition at the first such node and binds
\* nothing for it or for a later node.
C2_Original ==
  (Converted /\ HasUnsupported(TheGraph)) =>
    LET k == FirstUnsupported(TheGraph)
    IN /\ last.outcome = <<"raise", "NotImplementedError", "is not yet supported">>
       /\ last.run.failedAt = k
       /\ \A i \in DOMAIN RunLog : BeforeNode(RunLog[i], k)

\* C2 amended: convert fails at or before the first unsupported node; when no
\* earlier node raises it fails there with the unsupported-operator
\* condition; either way it returns no expression and binds nothing for
\* that node or a later one.
C2_UnsupportedStops ==
  (Converted /\ HasUnsupported(TheGraph)) =>
    LET k == FirstUnsupported(TheGraph)
    IN /\ last.run.failedAt \in 1..k
       /\ last.run.failedAt = k =>
            last.outcome = <<"raise", "NotImplementedError", "is not yet supported">>
       /\ last.outcome[1] = "raise"
       /\ \A i \in DOMAIN RunLog : BeforeNode(RunLog[i], k)

C2_Witness ==
  /\ Converted
  /\ Len(TheGraph.node) = 2
  /\ TheGraph.node[2].op_type = "Softmax"
  /\ TheGraph.node[1].op_type = "Mul"
  /\ BoundBy(1) # {}
  /\ last.run.failedAt = 2
  /\ last.outcome = <<"raise", "NotImplementedError", "is not yet supported">>

\* C5: when the first failing node is a Constant, Reshape, Transpose or
\* Concat, convert fails with the not-yet-implemented condition, an outcome
\* that differs from the one an unsupported kind gets in the same place; a
\* visited node of these kinds always fails.
C5_NotYetImplemented ==
  Converted =>
    \A k \in DOMAIN TheGraph.node :
      (Visited(k) /\ TheGraph.node[k].op_type \in ClaimedUnimplemented) =>
        /\ last.run.failedAt = k
        /\ last.outcome = <<"raise", "NotImplementedError", "not yet implemented">>
        /\ \A op \in {"Softmax", "Conv"} :
             ConvertNode([TheGraph.node[k] EXCEPT !.op_type = op], EnvBefore(k))
               # last.outcome

C5_Witness ==
  /\ Converted
  /\ Len(TheGraph.node) = 2
  /\ TheGraph.node[2].op_type = "Reshape"
  /\ last.run.failedAt = 2
  /\ last.outcome = <<"raise", "NotImplementedError", "not yet implemented">>

\* C3: with exactly one declared output, bound after a completed node walk,
\* convert returns the expression bound to it, unchanged, and casadi_graph
\* holds that expression.
C3_SingleOutput ==
  (/\ Converted
   /\ last.run.failedAt = 0
   /\ Len(TheGraph.output) = 1
   /\ TheGraph.output[1].name \in DOMAIN last.run.values) =>
    /\ last.outcome = <<"ok", last.run.values[TheGraph.output[1].name]>>
    /\ last.call = "convert" =>
         casadi_graph = <<last.run.values[TheGraph.output[1].name]>>

C3_Witness ==
  /\ Converted
  /\ last.call = "convert"
  /\ last.run.failedAt = 0
  /\ Len(TheGraph.node) = 2
  /\ Len(TheGraph.output) = 1
  /\ TheGraph.output[1].name \in DOMAIN last.run.values
  /\ BoundBy(2) # {}
  /\ last.outcome = <<"ok", RunLog[Len(RunLog)].val>>
  /\ casadi_graph = <<RunLog[Len(RunLog)].val>>

Reverse(seq) == [i \in DOMAIN seq |-> seq[Len(seq) + 1 - i]]
DeclaredBound == SelectSeq(TheGraph.output, LAMBDA d : d.name \in DOMAIN last.run.values)
Blocks == [i \in DOMAIN DeclaredBound |-> last.run.values[DeclaredBound[i].name]]

\* C4 as stated: with n > 1 declared outputs and a completed node walk,
\* convert returns the vertical concatenation of n blocks, the i-th being the
\* expression of the i-th declared output.
C4_Original ==
  (Converted /\ last.run.failedAt = 0 /\ Len(TheGraph.output) > 1) =>
    /\ last.outcome[1] = "ok"
    /\ last.outcome[2][1] = "vertcat"
    /\ Len(last.outcome[2][2]) = Len(TheGraph.output)
    /\ \A i \in DOMAIN TheGraph.output :
         /\ TheGraph.output[i].name \in DOMAIN last.run.values
         /\ last.outcome[2][2][i] = last.run.values[TheGraph.output[i].name]

\* C4 amended: with n > 1 declared outputs and a completed node walk, the
\* declared outputs that are not bound are left out: convert returns the
\* vertical concatenation of the bound ones in declared order when two or
\* more are bound (all n when all are bound), the one expression itself when
\* exactly one is bound, and fails with "No outputs found" when none is;
\* declaring the outputs in reverse order reverses the blocks.
C4_MultipleOutputs ==
  (Converted /\ last.run.failedAt = 0 /\ Len(TheGraph.output) > 1) =>
    /\ Len(DeclaredBound) > 1 =>
         /\ last.outcome = <<"ok", <<"vertcat", Blocks>>>>
         /\ ConvertModel([TheGraph EXCEPT !.output = Reverse(TheGraph.output)]).outcome
              = <<"ok", <<"vertcat", Reverse(Blocks)>>>>
    /\ Len(DeclaredBound) = 1 => last.outcome = <<"ok", Blocks[1]>>
    /\ Len(DeclaredBound) = 0 =>
         last.outcome = <<"raise", "RuntimeError", "No outputs found in the model">>

C4_Witness ==
  /\ Converted
  /\ last.run.failedAt = 0
  /\ Len(TheGraph.output) = 2
  /\ Len(DeclaredBound) = 2
  /\ Blocks[1] # Blocks[2]
  /\ last.outcome = <<"ok", <<"vertcat", <<Blocks[1], Blocks[2]>>>>>>

HasShapeField(t) == t.has_tensor_type /\ t.has_shape
AllFixed(t) == HasShapeField(t) /\ \A i \in DOMAIN t.dim : t.dim[i].has_dim_value
RECURSIVE FixedProduct(_)
FixedProduct(dim) ==
  IF dim = <<>> THEN 1
  ELSE (IF Head(dim).has_dim_value THEN Head(dim).dim_value ELSE 1)
       * FixedProduct(Tail(dim))

\* C7 as stated: the placeholder of a declared input is a one-column symbol
\* of length the product of all dimensions when every dimension is a fixed
\* integer, and a scalar symbol when the shape is unknown or any dimension
\* is symbolic.
C7_Original ==
  Converted =>
    \A i \in DOMAIN TheGraph.input :
      LET d == TheGraph.input[i]
      IN /\ RunLog[i].by = <<"input", i>>
         /\ RunLog[i].name = d.name
         /\ RunLog[i].val =
              IF AllFixed(d.type)
              THEN <<"sym", d.name, FixedProduct(d.type.dim), 1>>
              ELSE <<"sym", d.name, 1, 1>>

\* C7 amended: the placeholder is a one-column symbol whose length is the
\* product of the fixed dimensions of the declared shape (dimensions without
\* a value are left out of the product) when the shape has at least one
\* dimension, and a scalar symbol when the shape is unknown or has none.
C7_InputPlaceholder ==
  Converted =>
    \A i \in DOMAIN TheGraph.input :
      LET d == TheGraph.input[i]
      IN /\ RunLog[i].by = <<"input", i>>
         /\ RunLog[i].name = d.name
         /\ RunLog[i].val =
              IF HasShapeField(d.type) /\ Len(d.type.dim) > 0
              THEN <<"sym", d.name, FixedProduct(d.type.dim), 1>>
              ELSE <<"sym", d.name, 1, 1>>

C7_Witness ==
  /\ Converted
  /\ \E i \in DOMAIN TheGraph.input :
       /\ TheGraph.input[i].type.has_shape
       /\ Len(TheGraph.input[i].type.dim) = 2
       /\ ~TheGraph.input[i].type.dim[1].has_dim_value
       /\ TheGraph.input[i].type.dim[2] = [has_dim_value |-> TRUE, dim_value |-> 2]
       /\ RunLog[i].val = <<"sym", "x", 2, 1>>
  /\ \E i \in DOMAIN TheGraph.input :
       /\ AllFixed(TheGraph.input[i].type)
       /\ RunLog[i].val = <<"sym", "w", 2, 1>>

\* The value of a term over 1x1 operands at an integer point, for terms built
\* from symbols, constants, numbers, sums, differences and products.
RECURSIVE Evaluable(_)
Evaluable(e) ==
  \/ e[1] \in {"num", "const", "sym"}
  \/ /\ e[1] \in {"add", "sub", "mul", "mtimes"}
     /\ Evaluable(e[2])
     /\ Evaluable(e[3])
RECURSIVE Eval(_, _)
Eval(e, rho) ==
  CASE e[1] \in {"num", "const"} -> e[2]
    [] e[1] = "sym" -> rho[e[2]]
    [] e[1] = "add" -> Eval(e[2], rho) + Eval(e[3], rho)
    [] e[1] = "sub" -> Eval(e[2], rho) - Eval(e[3], rho)
    [] e[1] \in {"mul", "mtimes"} -> Eval(e[2], rho) * Eval(e[3], rho)
Points == [{"x", "w"} -> {-1, 2, 3}]
SameValue(e1, e2) == \A rho \in Points : Eval(e1, rho) = Eval(e2, rho)

ResolvedNames(k) ==
  SelectSeq(TheGraph.node[k].input, LAMBDA n : n \in DOMAIN EnvBefore(k))
Typed(attribute, name) ==
  {i \in DOMAIN attribute :
     attribute[i].name = name /\ attribute[i].field \in {"f", "i", "s"}}
Named(attribute, name) == {i \in DOMAIN attribute : attribute[i].name = name}
\* The number a Gemm attribute stands for: the first one of that name holding
\* a value, else 1.
ClaimedNumber(attribute, name) ==
  IF Typed(attribute, name) = {} THEN <<"num", 1>>
  ELSE LET i == CHOOSE j \in Typed(attribute, name) :
                  \A l \in Typed(attribute, name) : j <= l
       IN <<"num", attribute[i].val>>
ResultOf(k) == RunLog[CHOOSE i \in BoundBy(k) : TRUE].val

\* C8: a lowered Gemm node is bound to alpha*mtimes(A,B) + beta*C over its
\* resolved inputs, C the number zero with fewer than three of them, alpha
\* and beta the node's attributes or 1.0; without a third input it has the
\* value of the same node with a zero-valued third input under any beta; with
\* alpha and beta omitted it is the node with alpha = 1.0 and beta = 1.0.
C8_Gemm ==
  Converted =>
    \A k \in DOMAIN TheGraph.node :
      (Visited(k) /\ TheGraph.node[k].op_type = "Gemm" /\ BoundBy(k) # {}) =>
        LET env == EnvBefore(k)
            node == TheGraph.node[k]
            r == ResolvedNames(k)
            alpha == ClaimedNumber(node.attribute, "alpha")
            beta == ClaimedNumber(node.attribute, "beta")
        IN /\ Len(r) >= 2
           /\ ResultOf(k) =
                <<"add", <<"mul", alpha, <<"mtimes", env[r[1]], env[r[2]]>>>>,
                         <<"mul", beta, IF Len(r) > 2 THEN env[r[3]] ELSE <<"num", 0>>>>>>
           /\ (Len(r) = 2 /\ Evaluable(ResultOf(k))) =>
                \A z \in {n \in DOMAIN env : env[n] = <<"const", 0>>} :
                  \A b \in 0..MaxAttrVal :
                    SameValue(ResultOf(k),
                              ConvertNode([node EXCEPT
                                             !.input = r \o <<z>>,
                                             !.attribute = <<Attr("beta", "f", b)>> \o @],
                                          env)[2])
           /\ (Named(node.attribute, "alpha") = {} /\ Named(node.attribute, "beta") = {}) =>
                ResultOf(k) =
                  ConvertNode([node EXCEPT
                                 !.attribute = <<Attr("alpha", "f", 1), Attr("beta", "f", 1)>>],
                              env)[2]

C8_Witness ==
  /\ Converted
  /\ Len(TheGraph.node) = 1
  /\ TheGraph.node[1].op_type = "Gemm"
  /\ TheGraph.node[1].input = <<"x", "w">>
  /\ TheGraph.node[1].attribute = <<[name |-> "beta", field |-> "f", val |-> 2]>>
  /\ "z" \in DOMAIN EnvBefore(1)
  /\ EnvBefore(1)["z"] = <<"const", 0>>
  /\ BoundBy(1) # {}
  /\ ResultOf(1) =
       <<"add", <<"mul", <<"num", 1>>, <<"mtimes", <<"sym", "x", 1, 1>>, <<"sym", "w", 1, 1>>>>>>,
                <<"mul", <<"num", 2>>, <<"num", 0>>>>>>

\* Node k was lowered: visited, and its lowering did not raise.
Lowered(k) == Visited(k) /\ k # last.run.failedAt
Insertions(n) == {i \in DOMAIN RunLog : RunLog[i].name = n}
Declarations(n) ==
  {<<"input", i, 1>> : i \in {i \in DOMAIN TheGraph.input : TheGraph.input[i].name = n}}
  \cup {<<"initializer", i, 1>> :
          i \in {i \in DOMAIN TheGraph.initializer : TheGraph.initializer[i].name = n}}
  \cup UNION {{<<"node", k, j>> :
                 j \in {j \in DOMAIN TheGraph.node[k].output : TheGraph.node[k].output[j] = n}} :
              k \in {k \in DOMAIN TheGraph.node : Lowered(k)}}
DeclaredNames ==
  {TheGraph.input[i].name : i \in DOMAIN TheGraph.input}
  \cup {TheGraph.initializer[i].name : i \in DOMAIN TheGraph.initializer}
  \cup UNION {Range(TheGraph.node[k].output) : k \in DOMAIN TheGraph.node}

\* C9 as stated: in a convert run no name is inserted into the value
\* environment twice, and inputs and initializers are bound before any node.
C9_Original ==
  Converted =>
    /\ \A i, j \in DOMAIN RunLog : i < j => RunLog[i].name # RunLog[j].name
    /\ \A i \in DOMAIN RunLog :
         i <= Len(TheGraph.input) + Len(TheGraph.initializer) <=> RunLog[i].by[1] # "node"

\* C9 amended: in a convert run the inputs, then the initializers, are bound
\* before the first node is visited and no binding is removed; a name is
\* inserted once per declaration of it (as input, as initializer, as output
\* of a lowered node), hence at most once when these names are pairwise
\* distinct; an insertion of a name already bound overwrites the binding.
C9_Insertions ==
  Converted =>
    LET nI == Len(TheGraph.input)
        nT == Len(TheGraph.initializer)
    IN /\ \A i \in 1..nI :
            RunLog[i].by = <<"input", i>> /\ RunLog[i].name = TheGraph.input[i].name
       /\ \A i \in 1..nT :
            /\ RunLog[nI + i].by = <<"initializer", i>>
            /\ RunLog[nI + i].name = TheGraph.initializer[i].name
            /\ RunLog[nI + i].val = <<"const", TheGraph.initializer[i].array>>
       /\ \A i \in DOMAIN RunLog : i <= nI + nT <=> RunLog[i].by[1] # "node"
       /\ \A i, j \in DOMAIN RunLog :
            (i < j /\ RunLog[i].by[1] = "node" /\ RunLog[j].by[1] = "node") =>
              RunLog[i].by[2] <= RunLog[j].by[2]
       /\ \A n \in DeclaredNames :
            Cardinality(Insertions(n)) = Cardinality(Declarations(n))
       /\ \A i \in DOMAIN RunLog : RunLog[i].name \in DeclaredNames
       /\ DOMAIN last.run.values = {RunLog[i].name : i \in DOMAIN RunLog}
       /\ \A n \in DOMAIN last.run.values :
            last.run.values[n] =
              RunLog[CHOOSE i \in Insertions(n) : \A j \in Insertions(n) : j <= i].val

C9_Witness ==
  /\ Converted
  /\ Len(TheGraph.input) = 2
  /\ TheGraph.input[2].name = "w"
  /\ Len(TheGraph.initializer) = 1
  /\ TheGraph.initializer[1].name = "w"
  /\ Cardinality(Insertions("w")) = 2
  /\ last.run.values["w"] = <<"const", 1>>
  /\ Cardinality(Insertions("x")) = 1
  /\ Len(TheGraph.node) = 2
  /\ BoundBy(2) # {}

Arity(op_type) ==
  IF op_type \in {"Add", "Sub", "Mul", "Div", "MatMul", "Gemm"} THEN 2 ELSE 1
\* The operands a bound term was built from, by operator kind.
Operands(op_type, val) ==
  CASE op_type \in {"Add", "Sub", "Mul", "Div", "MatMul"} -> <<val[2], val[3]>>
    [] op_type = "Gemm" -> <<val[2][3][2], val[2][3][3]>>
    [] op_type = "Relu" -> <<val[2]>>
    [] op_type = "Sigmoid" -> <<val[3][3][2][2]>>
    [] op_type = "Tanh" -> <<val[2]>>
    [] op_type = "Identity" -> <<val>>
BytesAttribute(node) ==
  /\ node.op_type = "Gemm"
  /\ \E name \in {"alpha", "beta"} :
       /\ Typed(node.attribute, name) # {}
       /\ node.attribute[CHOOSE j \in Typed(node.attribute, name) :
                           \A l \in Typed(node.attribute, name) : j <= l].field = "s"
SkipsAnInput(k) ==
  /\ Visited(k)
  /\ TheGraph.node[k].op_type \in ClaimedImplemented
  /\ \E i \in DOMAIN TheGraph.node[k].input :
       TheGraph.node[k].input[i] \notin DOMAIN EnvBefore(k)
WalkContinues(k) == k < Len(TheGraph.node) => Visited(k + 1)

\* C10 as stated: a visited node of an implemented kind that lists an input
\* name absent from the environment does not make convert fail: a result is
\* bound to each of its output names and the walk continues.
C10_Original ==
  Converted =>
    \A k \in DOMAIN TheGraph.node :
      SkipsAnInput(k) =>
        /\ last.run.failedAt # k
        /\ \A j \in DOMAIN TheGraph.node[k].output :
             \E i \in BoundBy(k) : RunLog[i].name = TheGraph.node[k].output[j]
        /\ WalkContinues(k)

\* C10 amended: the absent names are skipped, and when the resolved inputs
\* that remain are at least as many as the operator takes (two for Add, Sub,
\* Mul, Div, MatMul and Gemm, one for Relu, Sigmoid, Tanh and Identity; and
\* a Gemm's alpha and beta are numbers) the node is lowered from the first of
\* them in their original order, the result is bound to its output names
\* and the walk continues; with fewer, convert fails at that node with
\* IndexError and binds nothing for it.
C10_SkippedInputs ==
  Converted =>
    \A k \in DOMAIN TheGraph.node :
      SkipsAnInput(k) =>
        LET node == TheGraph.node[k]
            env == EnvBefore(k)
            r == ResolvedNames(k)
        IN IF Len(r) < Arity(node.op_type)
           THEN /\ last.run.failedAt = k
                /\ last.outcome = <<"raise", "IndexError", "list index out of range">>
                /\ BoundBy(k) = {}
           ELSE IF BytesAttribute(node)
           THEN /\ last.run.failedAt = k
                /\ last.outcome[1] = "raise"
                /\ BoundBy(k) = {}
           ELSE /\ last.run.failedAt # k
                /\ \A j \in DOMAIN node.output :
                     \E i \in BoundBy(k) : RunLog[i].name = node.output[j]
                /\ \A i \in BoundBy(k) :
                     \A a \in 1..Arity(node.op_type) :
                       Operands(node.op_type, RunLog[i].val)[a] = env[r[a]]
                /\ WalkContinues(k)

C10_Witness ==
  /\ Converted
  /\ Len(TheGraph.node) = 2
  /\ TheGraph.node[1].op_type = "Sigmoid"
  /\ TheGraph.node[1].input = <<"q", "x">>
  /\ SkipsAnInput(1)
  /\ BoundBy(1) # {}
  /\ TheGraph.node[2].op_type = "Sub"
  /\ BoundBy(2) # {}
  /\ last.outcome[1] = "ok"

\* A step that is the call `name` on the instance: every call records itself
\* in last, and only a reassignment of model_path changes model_path.
CallStep(name) == model_path' = model_path /\ last'.call = name

\* C11: a load() or convert() that raises leaves model and casadi_graph as
\* they were before the call; a convert() that reaches the engine translates
\* the model held before the call (the one the last successful load stored,
\* whatever loads failed since), and on success stores and returns exactly the
\* engine's expression.
C11_FailedCallFrame ==
  [][ /\ ((CallStep("load") \/ CallStep("convert")) /\ last'.outcome[1] = "raise") =>
           /\ model' = model
           /\ casadi_graph' = casadi_graph
      /\ CallStep("load") => casadi_graph' = casadi_graph
      /\ CallStep("convert") =>
           /\ model' = model
           /\ last'.engine = (model # <<>>)
           /\ last'.engine =>
                /\ last'.outcome = ConvertModel(model[1]).outcome
                /\ last'.outcome[1] = "ok" => casadi_graph' = <<last'.outcome[2]>>
    ]_vars

C11_Witness ==
  /\ last.call = "load"
  /\ last.outcome[1] = "raise"
  /\ model # <<>>
  /\ casadi_graph # <<>>

====
